---- MODULE Spec2Model ----
(***************************************************************************)
(* The real-time session client of the helpdesk dashboard: the React       *)
(* SocketProvider hook, the socket.io transports it opens and the page      *)
(* effect that drives it.                                                   *)
(*                                                                          *)
(* Two room-dialect providers live in the repository and both are modelled; *)
(* the variable `variant` says which one a behaviour runs:                  *)
(*   "room"  src/unnamed/part_001 lines 392-689, whose connect() is called  *)
(*           by ConversationsPage.handleAuth (ConversationsPageNew.tsx);    *)
(*   "auto"  src/src/hooks/useSocket.tsx, which authenticates and connects  *)
(*           from its own effect (autoAuthenticate).                        *)
(*                                                                          *)
(* React is modelled as it runs the code: a handler runs to completion and  *)
(* writes the provider's state (socket, isConnected, isConnecting,          *)
(* hasAttemptedAuth); the functions it exposes (connect, disconnect) and    *)
(* the effect clean-ups read the values captured by the last committed      *)
(* render (rSocket, rIsConnected, ...); Render commits the state and runs   *)
(* the effects.  A credential exchange in flight keeps the closure of the   *)
(* render that started it.                                                  *)
(*                                                                          *)
(* A socket.io socket is "none" (not created), "idle" (closed), "retrying"  *)
(* (closed, the Manager will reconnect by itself: reconnection: true),      *)
(* "opening" (handshake in progress) or "open" (socket.connected).          *)
(***************************************************************************)
EXTENDS Integers, FiniteSets, Sequences, Bags, TLC

MaxSockets == 3
MaxTimers == 2
MaxAuth == 2
MaxUsers == 2
MaxEntries == 3
MaxSnapshot == 2
MaxRoomsTimers == 2
MaxOut == 2
MaxRooms == 2
MaxIds == 2
MaxAt == 2
MaxBatch == 2
MaxMsgs == 2

VARIABLES
    variant,              \* which provider runs
    user,                 \* useAuth().user is present
    mounted,              \* the provider's first commit has happened
    pageMounted,          \* ConversationsPage is mounted ("room")
    socket,               \* useState socket: 0 is null, else a socket id
    isConnected,
    isConnecting,
    hasAttemptedAuth,     \* "auto" only
    rSocket,              \* the same four, as captured by the last render
    rIsConnected,
    rIsConnecting,
    rHasAttemptedAuth,
    reconnectTimeoutRef,  \* 0 is null, else the id setTimeout returned
    timers,               \* pending reconnect timers: [id, sock]
    nextTimer,
    socks,                \* socket id -> status
    nextSocket,
    auths,                \* bag of credential exchanges in flight (closures)
    userApiKey,           \* localStorage 'userApiKey'
    lastOp,               \* the last handler that ran, and its socket
    exempt,               \* disconnect() was processed and nobody asked to connect since
    pingInterval,         \* the socket the keepalive interval pings, 0 when no interval runs
    handlers,             \* per socket, how many times connect() registered its handlers
    refresh,              \* OnlineUsersPage: hasInitiallyFetched, its interval and its timeout
    messages,             \* useState messages: sequence of message records
    selectedRoom,         \* the page's selected room / conversation, 0 is null
    roomMessages,         \* the page's derived view (roomMessages / conversationMessages)
    prevMessages,         \* messages as it was before the last inbound event
    swapped,              \* messages, had the last two events arrived in the other order
    onlineUsers,          \* useState onlineUsers: sequence of presence entries
    roomsTimers,          \* pending setTimeout(() => emit('get_rooms'), 100) callbacks
    outbox,               \* the commands emitted on the socket, in order
    snapshots,            \* the online_users payloads seen so far: none, clean, dup
    rooms,                \* useState rooms / conversations: sequence of container ids
    currentRoom,          \* useState currentRoom, 0 is null
    sendBuffer,           \* the commands socket.io queued on a socket that is not connected
    toast,                \* the toast the last command or handler showed, or "none"
    lastCall,             \* the last command called, with its arguments
    lastEvt               \* the last inbound event handled, with its payload

\* the collections the provider derives from the inbound events
messageVars == << messages, selectedRoom, roomMessages, prevMessages, swapped >>
presenceVars == << onlineUsers, roomsTimers, outbox, snapshots >>
commandVars == << sendBuffer, toast, lastCall >>
storeVars == << messageVars, presenceVars, commandVars, rooms, currentRoom, lastEvt >>

\* the session: sockets, flags, timers, credential exchanges
sessionVars == << variant, user, mounted, pageMounted, socket, isConnected, isConnecting,
                  hasAttemptedAuth, rSocket, rIsConnected, rIsConnecting, rHasAttemptedAuth,
                  reconnectTimeoutRef, timers, nextTimer, socks, nextSocket, auths,
                  userApiKey, lastOp, exempt, pingInterval, handlers, refresh >>

vars == << sessionVars, storeVars >>

Evt(type, arg) == [type |-> type, arg |-> arg]

\* OnlineUsersPage before its refresh effect has started anything
NoRefresh == [fetched |-> FALSE, interval |-> 0, timeout |-> 0]

\* connect() registers each handler once on the socket it has just created
RegisterHandlersTwice(h, s) == [h EXCEPT ![s] = @ + 2]
RegisterHandlers(h, s) == [h EXCEPT ![s] = @ + 1]

\* socket.emit(name, payload); an event without arguments has the empty payload
NoPayload == [k \in {} |-> 0]
Emit(name, payload) == [name |-> name, payload |-> payload]

\* a call of a command of the context value: getMessages(room, limit, offset)
\* or getMessages(recipient, limit, showError), getOnlineUsers(showError), ...
Call(cmd, room, limit, offset, showError, contentType) ==
    [cmd |-> cmd, room |-> room, limit |-> limit, offset |-> offset,
     showError |-> showError, contentType |-> contentType]
NoCall == Call("none", 0, 0, 0, TRUE, "undefined")

SocketIds == 1..MaxSockets
Status == {"none", "idle", "retrying", "opening", "open"}
Reasons == {"transport close", "io server disconnect"}
Outcomes == {"ok", "reject", "nokey"}

Op(name, s) == [op |-> name, sock |-> s]

\* socket.connected
Connected(ss, s) == s # 0 /\ ss[s] = "open"

\* a transport that is connecting or connected
Live(s) == socks[s] \in {"opening", "open"}
LiveSockets == {s \in SocketIds : Live(s)}

\* the value the UI shows (ChatInterface badge)
ConnectionState(c, g) == IF c THEN "connected" ELSE IF g THEN "connecting" ELSE "disconnected"

\* clearTimeout(id)
ClearTimeout(ts, id) == {t \in ts : t.id # id}

\* socket.disconnect(): the socket is closed and the Manager stops reconnecting
SocketDisconnect(ss, s) == IF s = 0 THEN ss ELSE [ss EXCEPT ![s] = "idle"]

\* socket.connect(): opens a closed socket; nothing when it is connected,
\* connecting or when the Manager is already reconnecting
SocketConnect(ss, s) == IF ss[s] = "idle" THEN [ss EXCEPT ![s] = "opening"] ELSE ss

\* the guard of connect(): if (socket?.connected || isConnecting) return
ConnectGuard(ss, cSocket, cIsConnecting) == Connected(ss, cSocket) \/ cIsConnecting

\* the guard of connectWithApiKey(): if (socket?.connected || !apiKey) return
ConnectWithApiKeyGuard(ss, cSocket, hasKey) == Connected(ss, cSocket) \/ ~hasKey

Init ==
    /\ variant \in {"room", "auto"}
    /\ user = TRUE
    /\ mounted = FALSE
    /\ pageMounted = FALSE
    /\ socket = 0
    /\ isConnected = FALSE
    /\ isConnecting = FALSE
    /\ hasAttemptedAuth = FALSE
    /\ rSocket = 0
    /\ rIsConnected = FALSE
    /\ rIsConnecting = FALSE
    /\ rHasAttemptedAuth = FALSE
    /\ reconnectTimeoutRef = 0
    /\ timers = {}
    /\ nextTimer = 1
    /\ socks = [s \in SocketIds |-> "none"]
    /\ nextSocket = 1
    /\ auths = EmptyBag
    /\ userApiKey \in {"none", "key"}
    /\ lastOp = Op("Init", 0)
    /\ exempt = FALSE
    /\ pingInterval = 0
    /\ handlers = [s \in SocketIds |-> 0]
    /\ refresh = NoRefresh
    /\ messages = << >>
    /\ selectedRoom = 0
    /\ roomMessages = << >>
    /\ prevMessages = << >>
    /\ swapped = << >>
    /\ onlineUsers = << >>
    /\ roomsTimers = 0
    /\ outbox = << >>
    /\ snapshots = "none"
    /\ rooms = << >>
    /\ currentRoom = 0
    /\ sendBuffer = << >>
    /\ toast = "none"
    /\ lastCall = NoCall
    /\ lastEvt = Evt("none", 0)

\* the closure a credential exchange keeps while it is in flight
Closure(cs, cg) == [cSocket |-> cs, cIsConnecting |-> cg]
StartAuth(b, cs, cg) == b (+) SetToBag({Closure(cs, cg)})

(***************************************************************************)
(* Socket events.                                                          *)
(***************************************************************************)

\* newSocket.on('connect'): the handshake of s succeeded
HandshakeOk(s) ==
    /\ socks[s] = "opening"
    /\ socks' = [socks EXCEPT ![s] = "open"]
    /\ isConnected' = TRUE
    /\ isConnecting' = FALSE
    /\ timers' = IF reconnectTimeoutRef # 0
                 THEN ClearTimeout(timers, reconnectTimeoutRef) ELSE timers
    /\ reconnectTimeoutRef' = 0
    /\ lastOp' = Op("connect", s)
    /\ UNCHANGED << variant, pingInterval, handlers, refresh,
                    user, mounted, pageMounted, socket, hasAttemptedAuth,
                    rSocket, rIsConnected, rIsConnecting, rHasAttemptedAuth,
                    nextTimer, nextSocket, auths, userApiKey, exempt >>

\* newSocket.on('connect_error'): the handshake of s failed; with
\* reconnection: true the Manager retries a transport-level failure by itself
\* (retry), and leaves the socket closed when the server rejected it
HandshakeFail(s, retry) ==
    /\ socks[s] = "opening"
    /\ socks' = [socks EXCEPT ![s] = IF retry THEN "retrying" ELSE "idle"]
    /\ isConnecting' = FALSE
    /\ isConnected' = IF variant = "auto" THEN isConnected ELSE FALSE
    /\ lastOp' = Op("connect_error", s)
    /\ UNCHANGED << variant, pingInterval, handlers, refresh,
                    user, mounted, pageMounted, socket, hasAttemptedAuth,
                    rSocket, rIsConnected, rIsConnecting, rHasAttemptedAuth,
                    reconnectTimeoutRef, timers, nextTimer, nextSocket, auths,
                    userApiKey, exempt >>

\* newSocket.on('disconnect', reason): the remote side dropped the open socket s
Loss(s, reason) ==
    /\ socks[s] = "open"
    /\ socks' = [socks EXCEPT ![s] = IF reason = "transport close" THEN "retrying" ELSE "idle"]
    /\ isConnected' = FALSE
    /\ IF variant = "room"
       THEN /\ nextTimer <= MaxTimers
            /\ timers' = timers \cup {[id |-> nextTimer, sock |-> s]}
            /\ reconnectTimeoutRef' = nextTimer
            /\ nextTimer' = nextTimer + 1
            /\ UNCHANGED isConnecting
       ELSE /\ isConnecting' = IF variant = "auto" THEN FALSE ELSE isConnecting
            /\ UNCHANGED << timers, reconnectTimeoutRef, nextTimer >>
    /\ lastOp' = Op("disconnect", s)
    /\ UNCHANGED << variant, pingInterval, handlers, refresh,
                    user, mounted, pageMounted, socket, hasAttemptedAuth,
                    rSocket, rIsConnected, rIsConnecting, rHasAttemptedAuth,
                    nextSocket, auths, userApiKey, exempt >>

\* the Manager's own reconnection attempt (reconnection: true)
ManagerReconnect(s) ==
    /\ socks[s] = "retrying"
    /\ socks' = [socks EXCEPT ![s] = "opening"]
    /\ lastOp' = Op("reconnect_attempt", s)
    /\ UNCHANGED << variant, pingInterval, handlers, refresh,
                    user, mounted, pageMounted, socket, isConnected, isConnecting,
                    hasAttemptedAuth, rSocket, rIsConnected, rIsConnecting, rHasAttemptedAuth,
                    reconnectTimeoutRef, timers, nextTimer, nextSocket, auths,
                    userApiKey, exempt >>

\* the 3-second timer of the disconnect handler fires: newSocket.connect()
ReconnectTimerFire(t) ==
    /\ t \in timers
    /\ timers' = timers \ {t}
    /\ socks' = SocketConnect(socks, t.sock)
    /\ lastOp' = Op("reconnect_timer", t.sock)
    /\ UNCHANGED << variant, pingInterval, handlers, refresh,
                    user, mounted, pageMounted, socket, isConnected, isConnecting,
                    hasAttemptedAuth, rSocket, rIsConnected, rIsConnecting, rHasAttemptedAuth,
                    reconnectTimeoutRef, nextTimer, nextSocket, auths, userApiKey, exempt >>


(***************************************************************************)
(* React commits.                                                          *)
(***************************************************************************)

\* a state update waits for React to commit it (or nothing is mounted yet)
RenderPending ==
    \/ ~mounted
    \/ << socket, isConnected, isConnecting, hasAttemptedAuth >>
         # << rSocket, rIsConnected, rIsConnecting, rHasAttemptedAuth >>

\* the user acts on what the last commit rendered: a click or a navigation is
\* handled once the pending update is committed
UserTurn == ~RenderPending

\* clean-up of useEffect(..., [socket]): if (socket) socket.disconnect()
CleanupSocks(ss, old, new) == IF old # new THEN SocketDisconnect(ss, old) ELSE ss

\* clean-up of useEffect(..., [socket]): clearTimeout(reconnectTimeoutRef.current)
CleanupTimers(ts, ref, old, new) ==
    IF old # new /\ ref # 0 THEN ClearTimeout(ts, ref) ELSE ts

\* the clean-up closed a connected socket: its 'disconnect' handler runs at
\* once with reason "io client disconnect"
CleanupFiresDisconnect(ss, old, new) == old # new /\ Connected(ss, old)

\* the guard of autoAuthenticate
AutoAuthGuard(u, attempted, connecting, connected) ==
    u /\ ~attempted /\ ~connecting /\ ~connected

\* the guard of handleAuth
HandleAuthGuard(u, connected) == u /\ ~connected

\* the part of the state a commit reads and writes
World == [socket |-> socket, isConnected |-> isConnected, isConnecting |-> isConnecting,
          hasAttemptedAuth |-> hasAttemptedAuth, socks |-> socks, timers |-> timers,
          auths |-> auths, nextSocket |-> nextSocket, exempt |-> exempt,
          userApiKey |-> userApiKey, pingInterval |-> pingInterval,
          handlers |-> handlers, refresh |-> refresh, enabled |-> TRUE]

\* the effect of ConversationsPage: handleAuth starts a credential exchange
\* that keeps the connect of the render w
HandleAuthEffect(w, c) ==
    IF pageMounted /\ HandleAuthGuard(user, w.isConnected)
    THEN [c EXCEPT !.auths = StartAuth(c.auths, w.socket, w.isConnecting),
                   !.exempt = FALSE,
                   !.enabled = BagCardinality(c.auths) < MaxAuth]
    ELSE c

\* the effect of the "auto" provider: autoAuthenticate, with the values of the
\* render w; a stored key goes to connectWithApiKey at once, else the fetch starts
AutoAuthEffect(w, c) ==
    IF AutoAuthGuard(user, w.hasAttemptedAuth, w.isConnecting, w.isConnected)
    THEN LET d == [c EXCEPT !.hasAttemptedAuth = TRUE, !.isConnecting = TRUE]
         IN  IF c.userApiKey # "none"
             THEN IF ConnectWithApiKeyGuard(d.socks, w.socket, TRUE)
                  THEN d
                  ELSE [d EXCEPT !.socks = IF d.nextSocket <= MaxSockets
                                           THEN [d.socks EXCEPT ![d.nextSocket] = "opening"]
                                           ELSE d.socks,
                                 !.handlers = IF d.nextSocket <= MaxSockets
                                              THEN RegisterHandlers(d.handlers, d.nextSocket)
                                              ELSE d.handlers,
                                 !.socket = d.nextSocket,
                                 !.nextSocket = d.nextSocket + 1,
                                 !.enabled = d.nextSocket <= MaxSockets]
             ELSE [d EXCEPT !.auths = StartAuth(d.auths, w.socket, w.isConnecting),
                            !.enabled = BagCardinality(d.auths) < MaxAuth]
    ELSE c

\* the first effect of OnlineUsersPage, run after every render because the
\* flat provider's connect is a new function each time: if (apiKey &&
\* !isConnected) connect(apiKey), with the connect of the render w
PageConnectEffect(w, c) ==
    IF w.isConnected \/ ConnectGuard(c.socks, w.socket, w.isConnecting) \/ ~user
    THEN c
    ELSE [c EXCEPT !.isConnecting = TRUE,
                   !.socks = IF c.nextSocket <= MaxSockets
                             THEN [c.socks EXCEPT ![c.nextSocket] = "opening"]
                             ELSE c.socks,
                   !.handlers = IF c.nextSocket <= MaxSockets
                                THEN RegisterHandlers(c.handlers, c.nextSocket)
                                ELSE c.handlers,
                   !.socket = c.nextSocket,
                   !.nextSocket = c.nextSocket + 1,
                   !.enabled = c.nextSocket <= MaxSockets]

\* the refresh effect starts the 100 ms timeout and the 10 s interval, on the
\* socket getOnlineUsers captured, only if hasInitiallyFetched is unset
StartRefresh(r, w) ==
    IF w.isConnected /\ ~r.fetched
    THEN [fetched |-> TRUE, interval |-> w.socket, timeout |-> w.socket]
    ELSE r

\* the second effect of OnlineUsersPage, useEffect(..., [isConnected,
\* getOnlineUsers]); getOnlineUsers changes with the socket. When a
\* dependency changed, the clean-up clears the interval (never the timeout)
\* and the effect runs again
PageRefreshEffect(w, c, old) ==
    IF ~mounted \/ w.isConnected # rIsConnected \/ w.socket # old
    THEN [c EXCEPT !.refresh = StartRefresh([c.refresh EXCEPT !.interval = 0], w)]
    ELSE c

\* the keepalive effect, useEffect(..., [socket]): when the socket of the
\* render changed, its clean-up clears the interval and the effect starts one
\* only if the new socket is connected at that moment; the "auto" provider
\* has no keepalive
PingEffect(ss, interval, old, new) ==
    IF variant = "auto" THEN 0
    ELSE IF old = new THEN interval
    ELSE IF Connected(ss, new) THEN new
    ELSE 0

\* React commits the state w over a render whose socket was old: the clean-up
\* of the [socket] effect runs, then the effects of the new render
Commit(w, old) ==
    LET fired == CleanupFiresDisconnect(w.socks, old, w.socket)
        c == [w EXCEPT !.socks = CleanupSocks(w.socks, old, w.socket),
                       !.pingInterval = PingEffect(CleanupSocks(w.socks, old, w.socket),
                                                   w.pingInterval, old, w.socket),
                       !.timers = CleanupTimers(w.timers, reconnectTimeoutRef, old, w.socket),
                       !.isConnected = IF fired THEN FALSE ELSE @,
                       !.isConnecting = IF fired /\ variant = "auto" THEN FALSE ELSE @]
    IN  CASE variant = "room" -> HandleAuthEffect(w, c)
          [] variant = "auto" -> AutoAuthEffect(w, c)
          [] variant = "flat" ->
               IF pageMounted THEN PageRefreshEffect(w, PageConnectEffect(w, c), old) ELSE c

\* the state becomes what the commit of w left, and the closures hold w
Committed(w, c) ==
    /\ c.enabled
    /\ mounted' = TRUE
    /\ rSocket' = w.socket
    /\ rIsConnected' = w.isConnected
    /\ rIsConnecting' = w.isConnecting
    /\ rHasAttemptedAuth' = w.hasAttemptedAuth
    /\ socket' = c.socket
    /\ isConnected' = c.isConnected
    /\ isConnecting' = c.isConnecting
    /\ hasAttemptedAuth' = c.hasAttemptedAuth
    /\ socks' = c.socks
    /\ timers' = c.timers
    /\ auths' = c.auths
    /\ nextSocket' = c.nextSocket
    /\ exempt' = c.exempt
    /\ userApiKey' = c.userApiKey
    /\ pingInterval' = c.pingInterval
    /\ handlers' = c.handlers
    /\ refresh' = c.refresh

\* React renders a pending state update (one made by a socket event, a timer
\* or a fetch continuation) and runs the effects
Render ==
    /\ RenderPending
    /\ Committed(World, Commit(World, rSocket))
    /\ lastOp' = Op("render", socket)
    /\ UNCHANGED << variant, user, pageMounted, reconnectTimeoutRef, nextTimer >>

(***************************************************************************)
(* The provider's operations and the callers' effects.                     *)
(***************************************************************************)

\* the state disconnect() leaves, before React commits it
DisconnectHandler(w, s) ==
    [w EXCEPT !.socks = SocketDisconnect(w.socks, s),
              !.socket = 0,
              !.isConnected = FALSE,
              !.isConnecting = FALSE,
              !.hasAttemptedAuth = IF variant = "auto" THEN FALSE ELSE @,
              !.userApiKey = IF variant = "auto" THEN "none" ELSE @,
              !.exempt = TRUE]

\* disconnect(), called from a click: it reads the socket captured by the last
\* render, and React commits its updates before anything else runs
Disconnect ==
    /\ UserTurn
    /\ lastOp' = Op("disconnect()", rSocket)
    /\ IF rSocket # 0
       THEN LET w == DisconnectHandler(World, rSocket)
            IN  Committed(w, Commit(w, rSocket))
       ELSE UNCHANGED << socks, socket, isConnected, isConnecting, hasAttemptedAuth,
                         userApiKey, exempt, mounted, rSocket, rIsConnected, pingInterval,
                         handlers, refresh,
                         rIsConnecting, rHasAttemptedAuth, timers, nextSocket, auths >>
    /\ UNCHANGED << variant, user, pageMounted, reconnectTimeoutRef, nextTimer >>

\* the keepalive interval fires: if (socket.connected) socket.emit('ping')
PingTick ==
    /\ pingInterval # 0
    /\ Connected(socks, pingInterval)
    /\ lastOp' = Op("ping", pingInterval)
    /\ UNCHANGED << variant, pingInterval, handlers, refresh,
                    user, mounted, pageMounted, socket, isConnected,
                    isConnecting, hasAttemptedAuth, rSocket, rIsConnected, rIsConnecting,
                    rHasAttemptedAuth, reconnectTimeoutRef, timers, nextTimer, socks,
                    nextSocket, auths, userApiKey, exempt >>

\* getOnlineUsers(false) of the flat provider, on the socket s it captured:
\* silent without a connection, else socket.emit('get_online_users')
GetOnlineUsers(s) == IF Connected(socks, s) THEN Op("get_online_users", s) ELSE lastOp

\* the 10-second interval of OnlineUsersPage fires
RefreshTick ==
    /\ refresh.interval # 0
    /\ lastOp' = GetOnlineUsers(refresh.interval)
    /\ UNCHANGED << variant, pingInterval, handlers, refresh,
                    user, mounted, pageMounted, socket, isConnected,
                    isConnecting, hasAttemptedAuth, rSocket, rIsConnected, rIsConnecting,
                    rHasAttemptedAuth, reconnectTimeoutRef, timers, nextTimer, socks,
                    nextSocket, auths, userApiKey, exempt >>

\* the 100 ms timeout of OnlineUsersPage fires, once
RefreshTimeoutFire ==
    /\ refresh.timeout # 0
    /\ refresh' = [refresh EXCEPT !.timeout = 0]
    /\ lastOp' = GetOnlineUsers(refresh.timeout)
    /\ UNCHANGED << variant, pingInterval, handlers,
                    user, mounted, pageMounted, socket, isConnected,
                    isConnecting, hasAttemptedAuth, rSocket, rIsConnected, rIsConnecting,
                    rHasAttemptedAuth, reconnectTimeoutRef, timers, nextTimer, socks,
                    nextSocket, auths, userApiKey, exempt >>

\* ConversationsPage mounts and its effect runs handleAuth with the connect
\* of the current render
PageMount ==
    /\ variant = "room"
    /\ UserTurn
    /\ ~pageMounted
    /\ pageMounted' = TRUE
    /\ IF HandleAuthGuard(user, rIsConnected)
       THEN /\ BagCardinality(auths) < MaxAuth
            /\ auths' = StartAuth(auths, rSocket, rIsConnecting)
            /\ exempt' = FALSE
       ELSE UNCHANGED << auths, exempt >>
    /\ lastOp' = Op("page_mount", 0)
    /\ UNCHANGED << variant, pingInterval, handlers, refresh,
                    user, mounted, socket, isConnected, isConnecting,
                    hasAttemptedAuth, rSocket, rIsConnected, rIsConnecting,
                    rHasAttemptedAuth, reconnectTimeoutRef, timers, nextTimer, socks,
                    nextSocket, userApiKey >>

\* ConversationsPage unmounts; a handleAuth in flight still completes
PageUnmount ==
    /\ variant = "room"
    /\ UserTurn
    /\ pageMounted
    /\ pageMounted' = FALSE
    /\ lastOp' = Op("page_unmount", 0)
    /\ UNCHANGED << variant, pingInterval, handlers, refresh,
                    user, mounted, socket, isConnected, isConnecting,
                    hasAttemptedAuth, rSocket, rIsConnected, rIsConnecting,
                    rHasAttemptedAuth, reconnectTimeoutRef, timers, nextTimer, socks,
                    nextSocket, auths, userApiKey, exempt >>

\* io(wsUrl, {auth, autoConnect: true, ...}); setSocket(newSocket)
OpenSocket ==
    /\ nextSocket <= MaxSockets
    /\ socks' = [socks EXCEPT ![nextSocket] = "opening"]
    /\ handlers' = RegisterHandlers(handlers, nextSocket)
    /\ socket' = nextSocket
    /\ nextSocket' = nextSocket + 1

\* "room": the exchange of handleAuth completes: authenticate() returns or
\* throws, then connect(apiKey, ...) runs with the closure c
AuthCompleteRoom(c, outcome) ==
    /\ variant = "room"
    /\ BagIn(c, auths)
    /\ auths' = auths (-) SetToBag({c})
    /\ lastOp' = Op("auth_" \o outcome, c.cSocket)
    /\ IF outcome = "reject"
       THEN UNCHANGED << userApiKey, socks, handlers, socket, nextSocket, isConnecting >>
       ELSE /\ userApiKey' = IF outcome = "ok" THEN "key" ELSE "undefined"
            /\ IF ConnectGuard(socks, c.cSocket, c.cIsConnecting)
               THEN UNCHANGED << socks, handlers, socket, nextSocket, isConnecting >>
               ELSE /\ isConnecting' = TRUE
                    /\ OpenSocket
    /\ UNCHANGED << variant, pingInterval, refresh, user, mounted, pageMounted, isConnected, hasAttemptedAuth,
                    rSocket, rIsConnected, rIsConnecting, rHasAttemptedAuth,
                    reconnectTimeoutRef, timers, nextTimer, exempt >>

\* "auto": the fetch of autoAuthenticate completes, then connectWithApiKey
\* runs with the closure c, or the catch block runs
AuthCompleteAuto(c, outcome) ==
    /\ variant = "auto"
    /\ BagIn(c, auths)
    /\ auths' = auths (-) SetToBag({c})
    /\ lastOp' = Op("auth_" \o outcome, c.cSocket)
    /\ IF outcome = "ok"
       THEN /\ userApiKey' = "key"
            /\ IF ConnectWithApiKeyGuard(socks, c.cSocket, TRUE)
               THEN UNCHANGED << socks, handlers, socket, nextSocket >>
               ELSE OpenSocket
            /\ UNCHANGED << isConnecting, hasAttemptedAuth >>
       ELSE /\ isConnecting' = FALSE
            /\ hasAttemptedAuth' = FALSE
            /\ UNCHANGED << userApiKey, socks, handlers, socket, nextSocket >>
    /\ UNCHANGED << variant, pingInterval, refresh, user, mounted, pageMounted, isConnected,
                    rSocket, rIsConnected, rIsConnecting, rHasAttemptedAuth,
                    reconnectTimeoutRef, timers, nextTimer, exempt >>

\* the only connection handler that writes the collections is disconnect()
\* of the part_001 providers: setMessages([]), setRooms([]), setOnlineUsers([])
ClearsCollectionsOnLoss(op) == op \in {"disconnect()", "disconnect"} /\ variant # "auto"
ClearsCollections(op) == op = "disconnect()" /\ variant # "auto"

\* what a connection handler leaves of the collections
DisconnectClears ==
    /\ IF rSocket # 0 /\ ClearsCollections(lastOp'.op)
       THEN messages' = << >> /\ rooms' = << >> /\ onlineUsers' = << >>
       ELSE UNCHANGED << messages, rooms, onlineUsers >>
    /\ UNCHANGED << selectedRoom, roomMessages, prevMessages, swapped, roomsTimers,
                    outbox, snapshots, commandVars, currentRoom, lastEvt >>

Next ==
    \/ Render /\ UNCHANGED storeVars
    \/ PageMount /\ UNCHANGED storeVars
    \/ PageUnmount /\ UNCHANGED storeVars
    \/ Disconnect /\ DisconnectClears
    \/ \E c \in BagToSet(auths), o \in Outcomes : AuthCompleteRoom(c, o) /\ UNCHANGED storeVars
    \/ \E c \in BagToSet(auths), o \in Outcomes : AuthCompleteAuto(c, o) /\ UNCHANGED storeVars
    \/ \E s \in SocketIds : HandshakeOk(s) /\ UNCHANGED storeVars
    \/ \E s \in SocketIds, retry \in BOOLEAN : HandshakeFail(s, retry) /\ UNCHANGED storeVars
    \/ \E s \in SocketIds, r \in Reasons : Loss(s, r) /\ UNCHANGED storeVars
    \/ \E s \in SocketIds : ManagerReconnect(s) /\ UNCHANGED storeVars
    \/ \E t \in timers : ReconnectTimerFire(t) /\ UNCHANGED storeVars
    \/ PingTick /\ UNCHANGED storeVars

Spec == Init /\ [][Next]_vars

(***************************************************************************)
(* The inbound events of one open connection and the collections the       *)
(* provider derives from them.  Three providers are covered: "flat"        *)
(* (src/unnamed/part_001 lines 64-308), "room" and "auto".                 *)
(***************************************************************************)

Providers == {"flat", "room", "auto"}

\* a session connected on socket 1, as the events below find it
ConnectedSession ==
    /\ variant \in Providers
    /\ user = TRUE
    /\ mounted = TRUE
    /\ pageMounted = TRUE
    /\ socket = 1
    /\ isConnected = TRUE
    /\ isConnecting = FALSE
    /\ hasAttemptedAuth = (variant = "auto")
    /\ rSocket = 1
    /\ rIsConnected = TRUE
    /\ rIsConnecting = FALSE
    /\ rHasAttemptedAuth = (variant = "auto")
    /\ reconnectTimeoutRef = 0
    /\ timers = {}
    /\ nextTimer = 1
    /\ socks = [s \in SocketIds |-> IF s = 1 THEN "open" ELSE "none"]
    /\ nextSocket = 2
    /\ auths = EmptyBag
    /\ userApiKey = "key"
    /\ lastOp = Op("connect", 1)
    /\ exempt = FALSE
    /\ pingInterval = 0
    /\ handlers = [s \in SocketIds |-> IF s = 1 THEN 1 ELSE 0]
    /\ refresh = NoRefresh

\* an inbound event reaches the handlers of the open socket
Receiving == Connected(socks, socket)

(***************************************************************************)
(* Presence, and the 'connected' event.                                    *)
(***************************************************************************)

UserIds == 1..MaxUsers
ClientIds == {"c1", "c2"}

\* the payload of a presence event: user_id and the field that comes with it
\* (client_id, user_name)
PresencePayloads == [user_id : UserIds, tag : ClientIds]

\* what the handlers store for a payload entry: the room provider keeps
\* { user_id } only, the others keep the payload object
StoreEntry(d) == IF variant = "room" THEN [user_id |-> d.user_id, tag |-> "none"] ELSE d

\* the look-up reads the first entry only
ExistsAtHead(prev, id) == prev # << >> /\ prev[1].user_id = id

\* prev.find(u => u.user_id === id)
Exists(prev, id) == \E k \in 1..Len(prev) : prev[k].user_id = id

\* the handler appends without looking the user up
OnUserOnlineAlwaysAppend(prev, d) == Append(prev, StoreEntry(d))

\* newSocket.on('user_online'): setOnlineUsers(prev => exists ? prev : [...prev, data])
OnUserOnline(prev, d) ==
    IF Exists(prev, d.user_id) THEN prev ELSE Append(prev, StoreEntry(d))

UserIdIsNot(id, u) == u.user_id # id

\* the handler drops the first entry instead of the matching ones
OnUserOfflineDropsHead(prev, id) == IF prev = << >> THEN prev ELSE Tail(prev)

\* newSocket.on('user_offline'): prev.filter(u => u.user_id !== data.user_id)
OnUserOffline(prev, id) == SelectSeq(prev, LAMBDA u : UserIdIsNot(id, u))

\* newSocket.on('online_users'): setOnlineUsers(data.users ...)
OnOnlineUsers(users) == [k \in 1..Len(users) |-> StoreEntry(users[k])]

\* the payloads of online_users: lists of at most MaxSnapshot entries
SnapshotPayloads ==
    UNION {[1..n -> PresencePayloads] : n \in 0..MaxSnapshot}

HasDuplicate(seq) ==
    \E a, b \in 1..Len(seq) : a # b /\ seq[a].user_id = seq[b].user_id

\* the handler only logs and starts no timer
OnConnectedLogsOnly(n) == n

\* newSocket.on('connected'): the room provider starts the 100 ms timer that
\* emits get_rooms; the flat provider only logs
OnConnected(n) == IF variant = "room" THEN n + 1 ELSE n

UserOnline(d) ==
    /\ Receiving
    /\ Len(onlineUsers) < MaxEntries
    /\ onlineUsers' = OnUserOnline(onlineUsers, d)
    /\ lastEvt' = Evt("user_online", d)
    /\ UNCHANGED << sessionVars, commandVars, rooms, currentRoom, messageVars, roomsTimers, outbox, snapshots >>

UserOffline(id) ==
    /\ Receiving
    /\ onlineUsers' = OnUserOffline(onlineUsers, id)
    /\ lastEvt' = Evt("user_offline", id)
    /\ UNCHANGED << sessionVars, commandVars, rooms, currentRoom, messageVars, roomsTimers, outbox, snapshots >>

OnlineUsers(users) ==
    /\ Receiving
    /\ onlineUsers' = OnOnlineUsers(users)
    /\ snapshots' = IF HasDuplicate(users) \/ snapshots = "dup" THEN "dup" ELSE "clean"
    /\ lastEvt' = Evt("online_users", users)
    /\ UNCHANGED << sessionVars, commandVars, rooms, currentRoom, messageVars, roomsTimers, outbox >>

\* the server's 'connected' event; useSocket.tsx registers no handler for it
ConnectedEvent ==
    /\ Receiving
    /\ variant # "auto"
    /\ roomsTimers < MaxRoomsTimers
    /\ roomsTimers' = OnConnected(roomsTimers)
    /\ lastEvt' = Evt("connected", 0)
    /\ UNCHANGED << sessionVars, commandVars, rooms, currentRoom, messageVars, onlineUsers, outbox, snapshots >>

\* the 100 ms timer of the 'connected' handler fires: newSocket.emit('get_rooms')
RoomsTimerFire ==
    /\ roomsTimers > 0
    /\ Len(outbox) < MaxOut
    /\ Len(sendBuffer) < MaxOut
    /\ roomsTimers' = roomsTimers - 1
    /\ IF Receiving
       THEN outbox' = Append(outbox, Emit("get_rooms", NoPayload)) /\ UNCHANGED sendBuffer
       ELSE sendBuffer' = Append(sendBuffer, Emit("get_rooms", NoPayload)) /\ UNCHANGED outbox
    /\ lastEvt' = Evt("rooms_timer", 0)
    /\ UNCHANGED << sessionVars, toast, lastCall, rooms, currentRoom, messageVars, onlineUsers, snapshots >>

PresenceInit ==
    /\ ConnectedSession
    /\ messages = << >>
    /\ selectedRoom = 0
    /\ roomMessages = << >>
    /\ prevMessages = << >>
    /\ swapped = << >>
    /\ onlineUsers = << >>
    /\ roomsTimers = 0
    /\ outbox = << >>
    /\ snapshots = "none"
    /\ rooms = << >>
    /\ currentRoom = 0
    /\ sendBuffer = << >>
    /\ toast = "none"
    /\ lastCall = NoCall
    /\ lastEvt = Evt("none", 0)

PresenceNext ==
    \/ \E d \in PresencePayloads : UserOnline(d)
    \/ \E id \in UserIds : UserOffline(id)
    \/ \E users \in SnapshotPayloads : OnlineUsers(users)
    \/ ConnectedEvent
    \/ RoomsTimerFire

PresenceSpec == PresenceInit /\ [][PresenceNext]_vars

(***************************************************************************)
(* Messages: the pushed message, the history batch and the page's view.    *)
(***************************************************************************)

Rooms == 1..MaxRooms
MsgIds == 1..MaxIds
Times == 1..MaxAt
Contents == {"a", "edited"}

\* a message: message id, container (room_id, or the partner of a flat
\* conversation), created_at, content
Messages == [id : MsgIds, room : Rooms, at : Times, content : Contents]

\* a list put in order by insertion, an entry going after the entries that
\* are not later than it
InsertByAt(sorted, m) ==
    LET notLater == {k \in 1..Len(sorted) : sorted[k].at <= m.at}
        n == IF notLater = {} THEN 0
             ELSE CHOOSE k \in notLater : \A j \in notLater : j <= k
    IN  SubSeq(sorted, 1, n) \o << m >> \o SubSeq(sorted, n + 1, Len(sorted))

\* list.sort((a, b) => new Date(a.created_at) - new Date(b.created_at)): a
\* stable sort, ascending by created_at
RECURSIVE SortByAt(_)
SortByAt(list) ==
    IF list = << >> THEN << >>
    ELSE InsertByAt(SortByAt(SubSeq(list, 1, Len(list) - 1)), list[Len(list)])

\* newSocket.on('message') / ('message_sent') / ('new_message')
OnMessage(prev, m) ==
    CASE variant = "flat" -> << m >> \o prev
      [] variant = "room" -> SortByAt(Append(prev, m))
      [] variant = "auto" -> Append(prev, m)

\* newSocket.on('messages'): setMessages(data.messages || [])
OnMessages(prev, batch) == batch.messages

InRoom(c, m) == m.room = c

\* messages.filter(msg => msg.room_id === selectedRoom)
FilterRoom(list, c) == SelectSeq(list, LAMBDA m : InRoom(c, m))

\* the page's effect on [messages, selectedRoom]: ConversationsPageNew filters
\* and sorts, the flat page (part_002) only filters
View(list, c) ==
    IF variant = "flat" THEN FilterRoom(list, c) ELSE SortByAt(FilterRoom(list, c))

RoomView(list, old) == IF selectedRoom # 0 THEN View(list, selectedRoom) ELSE old

\* the history batches of container c: at most MaxBatch messages of c, each
\* message id once
Batches(c) ==
    {[room |-> c, messages |-> b] :
        b \in {q \in UNION {[1..n -> {m \in Messages : m.room = c}] : n \in 0..MaxBatch} :
                  \A a, k \in 1..Len(q) : a # k => q[a].id # q[k].id}}

\* the handler of an inbound event, as a function of the collection
Apply(list, e) ==
    IF e.type = "message" THEN OnMessage(list, e.arg)
    ELSE IF e.type = "messages" THEN OnMessages(list, e.arg)
    ELSE list

\* batch b is a history batch of the container of m and holds m
Holds(b, m) == b.room = m.room /\ \E k \in 1..Len(b.messages) : b.messages[k] = m

\* the last event and this one are a pushed message and a history batch of
\* its container fetched after it, which holds it: the two raced
RacePair(e1, e2) ==
    \/ e1.type = "messages" /\ e2.type = "message" /\ Holds(e1.arg, e2.arg)
    \/ e1.type = "message" /\ e2.type = "messages" /\ Holds(e2.arg, e1.arg)

\* an inbound message event e is handled, and React runs the page's effect
Handle(e) ==
    /\ Receiving
    /\ messages' = Apply(messages, e)
    /\ roomMessages' = RoomView(messages', roomMessages)
    /\ prevMessages' = messages
    /\ swapped' = IF RacePair(lastEvt, e)
                  THEN Apply(Apply(prevMessages, e), lastEvt)
                  ELSE messages'
    /\ lastEvt' = e
    /\ UNCHANGED << sessionVars, commandVars, rooms, currentRoom, selectedRoom, presenceVars >>

Message(m) ==
    /\ Len(messages) < MaxMsgs
    /\ Handle(Evt("message", m))

MessagesBatch(b) == Handle(Evt("messages", b))

MessageInit ==
    /\ ConnectedSession
    /\ messages = << >>
    /\ selectedRoom \in 0..MaxRooms
    /\ roomMessages = << >>
    /\ prevMessages = << >>
    /\ swapped = << >>
    /\ onlineUsers = << >>
    /\ roomsTimers = 0
    /\ outbox = << >>
    /\ snapshots = "none"
    /\ rooms = << >>
    /\ currentRoom = 0
    /\ sendBuffer = << >>
    /\ toast = "none"
    /\ lastCall = NoCall
    /\ lastEvt = Evt("none", 0)

MessageNext ==
    \/ \E m \in Messages : Message(m)
    \/ \E c \in Rooms : \E b \in Batches(c) : MessagesBatch(b)

MessageSpec == MessageInit /\ [][MessageNext]_vars

(***************************************************************************)
(* The session-lifecycle properties.                                       *)
(***************************************************************************)

\* C1: in every reachable state of a session, whatever the interleaving of
\* connect calls, credential exchanges completing, transport loss, reconnect
\* timers firing and disconnect calls, at most one transport (socket) is live,
\* that is connecting or connected.
C1_AtMostOneLiveTransport == Cardinality(LiveSockets) <= 1

\* C2: connect() called while the state is Connecting or Connected returns
\* at once: it opens no transport and changes no state, so two connect calls
\* in succession leave exactly one live transport.
C2_ConnectIsNoOpWhenBusy ==
    [][(/\ variant = "room"
        /\ lastOp'.op \in {"auth_ok", "auth_nokey"}
        /\ (isConnecting \/ isConnected))
       => (/\ socks' = socks
           /\ socket' = socket
           /\ isConnecting' = isConnecting
           /\ isConnected' = isConnected)]_vars

\* C3: the connection state follows Disconnected -> Connecting -> Connected ->
\* Disconnected: Connected is entered only from Connecting, also on every
\* reconnection after a loss, and Connecting is never entered while the state
\* is Connecting or Connected (a disconnect() passes through Disconnected).
C3_TransitionsFollowTheCycle ==
    [][/\ (isConnected' /\ ~isConnected) => isConnecting
       /\ (isConnecting' /\ ~isConnecting /\ lastOp'.op # "disconnect()") => ~isConnected]_vars

\* C4: the observable connection state has one value at any instant: the
\* flags isConnected and isConnecting are never both true.
C4_OneStateValue == ~(isConnected /\ isConnecting)

\* C5: after a connected socket is dropped by the remote side, exactly one
\* reconnection attempt is scheduled, for the socket that was dropped (the
\* timer that later fires and connects again with the same credential).
C5_OneReconnectScheduledAfterLoss ==
    lastOp.op = "disconnect" =>
        /\ Cardinality(timers) = 1
        /\ \A t \in timers : t.sock = lastOp.sock

\* C6: at most one reconnect timer is pending: no reconnect timer is started
\* while an earlier one has neither fired nor been cleared.
C6_AtMostOneReconnectTimer == Cardinality(timers) <= 1

\* C7: once a local disconnect() has been processed no reconnect timer is
\* pending, so the callback of a timer that was pending never runs.
C7_DisconnectCancelsReconnectTimer == lastOp.op = "disconnect()" => timers = {}

\* C8: explicit disconnect() is exempt from auto-reconnection: from the
\* disconnect() on, and until the caller asks to connect again, no credential
\* exchange is started and no transport is opened.
C8_NoReconnectAfterDisconnect ==
    [][exempt' =>
        /\ BagCardinality(auths') <= BagCardinality(auths)
        /\ \A s \in SocketIds : socks'[s] = "opening" => socks[s] = "opening"]_vars

\* C9: disconnect() resets the state to Disconnected from every state it can
\* be called in (Connecting with the credential exchange in flight and no
\* socket yet, Connecting with a socket, Connected): afterwards isConnected
\* and isConnecting are false and no transport is live.
C9_DisconnectResetsState ==
    lastOp.op = "disconnect()" =>
        /\ ~isConnected
        /\ ~isConnecting
        /\ LiveSockets = {}

\* C10: on a handshake failure (connect_error) the state becomes Disconnected
\* and no reconnection is scheduled: no reconnect timer is started for the
\* socket and the transport is not left to retry by itself.
C10_ConnectErrorNoReconnect ==
    lastOp.op = "connect_error" =>
        /\ ~isConnected
        /\ ~isConnecting
        /\ socks[lastOp.sock] # "retrying"
        /\ \A t \in timers : t.sock # lastOp.sock

\* C11: a successful handshake clears any pending reconnect timer: in every
\* reachable state in which the state is Connected no reconnect timer is
\* pending.
C11_NoTimerWhileConnected == isConnected => timers = {}

(***************************************************************************)
(* The properties of the 'connected' event and of the presence set.        *)
(***************************************************************************)

C18_DeltasKeepUsersUnique ==
    [][/\ snapshots' = "none" => ~HasDuplicate(onlineUsers')
       /\ (lastEvt'.type = "user_online"
           /\ \E k \in 1..Len(onlineUsers) : onlineUsers[k].user_id = lastEvt'.arg.user_id)
            => onlineUsers' = onlineUsers]_vars

\* after deltas only, a user_online arrived for a user who was already present
C18_Witness ==
    /\ snapshots = "none"
    /\ lastEvt.type = "user_online"
    /\ Len(onlineUsers) = 2
    /\ onlineUsers[2].user_id # lastEvt.arg.user_id

\* the entries of seq other than those of id, in their order
RECURSIVE Remaining(_, _)
Remaining(seq, id) ==
    IF seq = << >> THEN << >>
    ELSE IF Head(seq).user_id = id THEN Remaining(Tail(seq), id)
         ELSE << Head(seq) >> \o Remaining(Tail(seq), id)

\* C19: a user_offline delta removes the entry matching its userId and
\* nothing else; when that userId is absent the presence set keeps exactly
\* the same entries in the same order.
C19_OfflineRemovesOnlyThatUser ==
    [][lastEvt'.type = "user_offline" =>
        /\ \A k \in 1..Len(onlineUsers') : onlineUsers'[k].user_id # lastEvt'.arg
        /\ Remaining(onlineUsers', lastEvt'.arg) = Remaining(onlineUsers, lastEvt'.arg)
        /\ (\A k \in 1..Len(onlineUsers) : onlineUsers[k].user_id # lastEvt'.arg)
             => onlineUsers' = onlineUsers]_vars

\* a user_offline was handled and another user is still present
C19_Witness == lastEvt.type = "user_offline" /\ Len(onlineUsers) = 1

C13_PushTwiceIsPushOnce ==
    [][(lastEvt.type = "message" /\ lastEvt'.type = "message" /\ lastEvt'.arg = lastEvt.arg)
         => messages' = messages]_vars

\* C14: after any sequence of history-batch and pushed-message events no two
\* entries of the message collection have the same message id: a pushed
\* message whose id is already present overwrites that entry, so after a
\* pushed message every entry with its id carries the fields of that event.
C14_MessageIdsUnique ==
    /\ \A a, b \in 1..Len(messages) : a # b => messages[a].id # messages[b].id
    /\ lastEvt.type = "message" =>
         \A k \in 1..Len(messages) :
            messages[k].id = lastEvt.arg.id => messages[k] = lastEvt.arg

\* C15: push delivery and batch fetch converge: when the last two events were
\* a history batch B of a container and a pushed message m of that container
\* (taken here in the case where B holds m, both having arrived), the
\* collection is the one the other order of arrival would have left.
C15_PushAndBatchConverge == messages = swapped

NotInRoom(c, m) == m.room # c

\* C16: a history batch for container c replaces only the messages belonging
\* to c: every stored message of any other container is left unchanged.
C16_BatchLeavesOtherContainers ==
    [][lastEvt'.type = "messages" =>
         SelectSeq(messages', LAMBDA m : NotInRoom(lastEvt'.arg.room, m))
           = SelectSeq(messages, LAMBDA m : NotInRoom(lastEvt'.arg.room, m))]_vars

\* C17: for any container, after any sequence of history-batch and
\* push-message events, the derived per-container message view is sorted
\* ascending by createdAt.
C17_ViewSortedByCreatedAt ==
    \A a, b \in 1..Len(roomMessages) : a < b => roomMessages[a].at <= roomMessages[b].at

(***************************************************************************)
(* The outbound commands of the three providers.                           *)
(***************************************************************************)

DefaultLimit == 50
DefaultOffset == 0
Limits == {DefaultLimit, DefaultLimit + DefaultLimit}
Offsets == {DefaultOffset, DefaultLimit}
ContentTypes == {"undefined", "image"}
NotConnectedError == "Not connected to chat server"

\* the commands each provider's context value offers
ProviderCommands(v) ==
    CASE v = "flat" -> {"sendMessage", "getMessages", "getConversations", "getOnlineUsers",
                        "checkUserStatus"}
      [] v = "room" -> {"sendMessage", "joinRoom", "leaveRoom", "getMessages", "getRooms",
                        "getOnlineUsers"}
      [] v = "auto" -> {"sendMessage", "joinRoom", "leaveRoom", "getMessages", "getRooms"}
CommandNames == UNION {ProviderCommands(v) : v \in Providers}

\* the commands that take a showError argument (flat provider only)
TakesShowError(v, cmd) ==
    v = "flat" /\ cmd \in {"getMessages", "getConversations", "getOnlineUsers"}

\* the calls a caller can make: arguments the signature does not have keep
\* their default
CallsOf ==
    [v \in Providers |->
       {c \in {Call(cmd, r, l, o, e, t) : cmd \in ProviderCommands(v), r \in Rooms,
                                          l \in Limits, o \in Offsets, e \in BOOLEAN,
                                          t \in ContentTypes} :
           /\ c.cmd \in {"getRooms", "getConversations", "getOnlineUsers"} => c.room = 1
           /\ ~(c.cmd = "getMessages" /\ v # "auto") => c.limit = DefaultLimit
           /\ ~(c.cmd = "getMessages" /\ v = "room") => c.offset = DefaultOffset
           /\ ~TakesShowError(v, c.cmd) => c.showError
           /\ c.cmd # "sendMessage" => c.contentType = "undefined"}]
Calls(v) == CallsOf[v]

\* the guard every command starts with: if (!socket?.connected) ... return
SocketOnlyGuard(ss, s) == s = 0
NotConnectedGuard(ss, s) == ~Connected(ss, s)

\* whether the rejected call shows toast.error('Not connected to chat server')
ShowsErrorNever(v, c) == FALSE
ShowsError(v, c) == IF TakesShowError(v, c.cmd) THEN c.showError ELSE TRUE

\* content_type: data.content_type || 'text'
ContentTypeOrText(t) == IF t = "undefined" THEN "text" ELSE t

\* the event the call emits on a connected socket
Outbound(v, c) ==
    CASE c.cmd = "sendMessage" ->
           IF v = "flat"
           THEN Emit("send_message", [recipient_id |-> c.room,
                                      content_type |-> ContentTypeOrText(c.contentType)])
           ELSE IF v = "room"
           THEN Emit("send_message", [room_id |-> c.room, content_type |-> c.contentType])
           ELSE Emit("send_message", [room_id |-> c.room,
                                      content_type |-> ContentTypeOrText(c.contentType)])
      [] c.cmd = "getMessages" ->
           IF v = "flat"
           THEN Emit("get_messages", [recipient_id |-> c.room, limit |-> c.limit])
           ELSE IF v = "room"
           THEN Emit("get_messages", [room_id |-> c.room, limit |-> c.limit,
                                      offset |-> c.offset])
           ELSE Emit("get_messages", [room_id |-> c.room])
      [] c.cmd = "joinRoom" -> Emit("join_room", [room_id |-> c.room])
      [] c.cmd = "leaveRoom" -> Emit("leave_room", [room_id |-> c.room])
      [] c.cmd = "getRooms" -> Emit("get_rooms", NoPayload)
      [] c.cmd = "getConversations" -> Emit("get_conversations", NoPayload)
      [] c.cmd = "getOnlineUsers" ->
           IF v = "flat"
           THEN Emit("get_online_users", NoPayload)
           ELSE Emit("online_users", NoPayload)
      [] c.cmd = "checkUserStatus" -> Emit("check_user_status", [user_id |-> c.room])

\* a component calls the command c of the last render: the guard reads the
\* socket that render captured; socket.emit sends on a connected socket and
\* queues on any other
Command(c) ==
    /\ c \in Calls(variant)
    /\ Len(outbox) < MaxOut
    /\ Len(sendBuffer) < MaxOut
    /\ lastCall' = c
    /\ lastOp' = Op(c.cmd, rSocket)
    /\ IF NotConnectedGuard(socks, rSocket)
       THEN /\ toast' = IF ShowsError(variant, c) THEN NotConnectedError ELSE "none"
            /\ UNCHANGED << outbox, sendBuffer >>
       ELSE /\ toast' = "none"
            /\ IF Connected(socks, rSocket)
               THEN outbox' = Append(outbox, Outbound(variant, c)) /\ UNCHANGED sendBuffer
               ELSE sendBuffer' = Append(sendBuffer, Outbound(variant, c)) /\ UNCHANGED outbox
    /\ UNCHANGED << variant, pingInterval, handlers, refresh,
                    user, mounted, pageMounted, socket, isConnected,
                    isConnecting, hasAttemptedAuth, rSocket, rIsConnected, rIsConnecting,
                    rHasAttemptedAuth, reconnectTimeoutRef, timers, nextTimer, socks,
                    nextSocket, auths, userApiKey, exempt >>
    /\ UNCHANGED << messageVars, onlineUsers, roomsTimers, snapshots, rooms, currentRoom,
                    lastEvt >>

\* a committed session in any connection state: no socket yet, connecting,
\* connected, dropped and retried by the Manager, or failed; the collections
\* hold what earlier events left
CommandInit ==
    /\ variant \in Providers
    /\ user = TRUE
    /\ mounted = TRUE
    /\ pageMounted = TRUE
    /\ \E st \in Status :
         /\ socket = IF st = "none" THEN 0 ELSE 1
         /\ socks = [s \in SocketIds |-> IF s = 1 THEN st ELSE "none"]
         /\ isConnected = (st = "open")
         /\ isConnecting = (st = "opening" \/ (st = "none" /\ variant = "auto"))
         /\ auths = IF st = "none" /\ variant # "flat"
                    THEN SetToBag({Closure(0, FALSE)})
                    ELSE EmptyBag
         /\ userApiKey = IF st = "none" THEN "none" ELSE "key"
         /\ lastOp = IF st = "none" THEN Op("render", 0) ELSE Op("connect", 1)
    /\ nextSocket = IF socket = 0 THEN 1 ELSE 2
    /\ hasAttemptedAuth = (variant = "auto")
    /\ rSocket = socket
    /\ rIsConnected = isConnected
    /\ rIsConnecting = isConnecting
    /\ rHasAttemptedAuth = hasAttemptedAuth
    /\ reconnectTimeoutRef = 0
    /\ timers = {}
    /\ nextTimer = 1
    /\ exempt = FALSE
    /\ pingInterval = 0
    /\ handlers = [s \in SocketIds |-> IF socks[s] = "none" THEN 0 ELSE 1]
    /\ refresh = NoRefresh
    /\ \E full \in BOOLEAN :
         /\ messages = IF full /\ socket # 0
                       THEN << [id |-> 1, room |-> 1, at |-> 1, content |-> "a"] >>
                       ELSE << >>
         /\ rooms = IF full /\ socket # 0 THEN << 1 >> ELSE << >>
         /\ currentRoom = IF full /\ socket # 0 THEN 1 ELSE 0
         /\ onlineUsers = IF full /\ socket # 0 THEN << StoreEntry([user_id |-> 1, tag |-> "c1"]) >> ELSE << >>
    /\ selectedRoom = 0
    /\ roomMessages = << >>
    /\ prevMessages = << >>
    /\ swapped = << >>
    /\ roomsTimers = 0
    /\ outbox = << >>
    /\ snapshots = "none"
    /\ sendBuffer = << >>
    /\ toast = "none"
    /\ lastCall = NoCall
    /\ lastEvt = Evt("none", 0)

\* newSocket.on('room_joined'): the room provider stores the room and emits
\* the history fetch on the socket of the event; useSocket.tsx stores the
\* room and shows a toast
RoomJoined(r) ==
    /\ Receiving
    /\ variant # "flat"
    /\ Len(outbox) < MaxOut
    /\ currentRoom' = r
    /\ IF variant = "room"
       THEN /\ outbox' = Append(outbox, Emit("get_messages",
                                   [room_id |-> r, limit |-> DefaultLimit,
                                    offset |-> DefaultOffset]))
            /\ UNCHANGED toast
       ELSE /\ toast' = "Joined room"
            /\ UNCHANGED outbox
    /\ lastEvt' = Evt("room_joined", r)
    /\ UNCHANGED << sessionVars, messageVars, onlineUsers, roomsTimers, snapshots,
                    sendBuffer, lastCall, rooms >>

CommandNext ==
    \/ \E c \in Calls(variant) : Command(c)
    \/ \E r \in Rooms : RoomJoined(r)

CommandSpec == CommandInit /\ [][CommandNext]_vars

(***************************************************************************)
(* Loss, reconnection and teardown of a connected session.                 *)
(***************************************************************************)

\* a connected session of a provider whose page is not mounted, with the
\* collections the events so far have left; the keepalive interval runs only
\* if the handshake had completed before React committed the socket
ReconnectInit ==
    /\ variant \in {"room", "auto"}
    /\ user = TRUE
    /\ mounted = TRUE
    /\ pageMounted = FALSE
    /\ socket = 1
    /\ isConnected = TRUE
    /\ isConnecting = FALSE
    /\ hasAttemptedAuth = (variant = "auto")
    /\ rSocket = 1
    /\ rIsConnected = TRUE
    /\ rIsConnecting = FALSE
    /\ rHasAttemptedAuth = (variant = "auto")
    /\ reconnectTimeoutRef = 0
    /\ timers = {}
    /\ nextTimer = 1
    /\ socks = [s \in SocketIds |-> IF s = 1 THEN "open" ELSE "none"]
    /\ nextSocket = 2
    /\ auths = EmptyBag
    /\ userApiKey = "key"
    /\ lastOp = Op("render", 1)
    /\ exempt = FALSE
    /\ pingInterval \in IF variant = "room" THEN {0, 1} ELSE {0}
    /\ handlers = [s \in SocketIds |-> IF s = 1 THEN 1 ELSE 0]
    /\ refresh = NoRefresh
    /\ \E full \in BOOLEAN :
         /\ messages = IF full
                       THEN << [id |-> 1, room |-> 1, at |-> 1, content |-> "a"] >>
                       ELSE << >>
         /\ rooms = IF full THEN << 1 >> ELSE << >>
         /\ currentRoom = IF full THEN 1 ELSE 0
         /\ onlineUsers = IF full THEN << StoreEntry([user_id |-> 1, tag |-> "c1"]) >> ELSE << >>
    /\ selectedRoom = 0
    /\ roomMessages = << >>
    /\ prevMessages = << >>
    /\ swapped = << >>
    /\ roomsTimers = 0
    /\ outbox = << >>
    /\ snapshots = "none"
    /\ sendBuffer = << >>
    /\ toast = "none"
    /\ lastCall = NoCall
    /\ lastEvt = Evt("none", 0)

\* the messages a server-sent 'error' event can carry; "" is a missing one
ErrorMessages == {"", "room not found"}

\* toast.error(error.message || 'Socket error occurred')
ErrorTextSilent(m) == "none"
ErrorText(m) == IF m = "" THEN "Socket error occurred" ELSE m

\* newSocket.on('error') of the part_001 providers: the message is shown and
\* nothing else is written; useSocket.tsx registers no handler for it
ErrorEvent(m) ==
    /\ Receiving
    /\ variant # "auto"
    /\ toast' = ErrorText(m)
    /\ lastEvt' = Evt("error", m)
    /\ UNCHANGED << sessionVars, messageVars, presenceVars, sendBuffer, lastCall, rooms,
                    currentRoom >>

\* the Sign Out button: useAuth's user becomes null and the providers render
\* again; no effect of the socket provider acts on an absent user
SignOut ==
    /\ UserTurn
    /\ user
    /\ user' = FALSE
    /\ lastOp' = Op("sign_out", rSocket)
    /\ UNCHANGED << variant, pingInterval, handlers, refresh, mounted, pageMounted, socket,
                    isConnected, isConnecting, hasAttemptedAuth, rSocket, rIsConnected,
                    rIsConnecting, rHasAttemptedAuth, reconnectTimeoutRef, timers, nextTimer,
                    socks, nextSocket, auths, userApiKey, exempt >>

ReconnectNext ==
    \/ \E s \in SocketIds, r \in Reasons : Loss(s, r) /\ DisconnectClears
    \/ \E s \in SocketIds : ManagerReconnect(s) /\ DisconnectClears
    \/ \E t \in timers : ReconnectTimerFire(t) /\ DisconnectClears
    \/ \E s \in SocketIds : HandshakeOk(s) /\ DisconnectClears
    \/ \E s \in SocketIds, retry \in BOOLEAN : HandshakeFail(s, retry) /\ DisconnectClears
    \/ Render /\ DisconnectClears
    \/ Disconnect /\ DisconnectClears
    \/ \E c \in BagToSet(auths), o \in Outcomes : AuthCompleteAuto(c, o) /\ DisconnectClears
    \/ PingTick /\ DisconnectClears
    \/ SignOut /\ DisconnectClears
    \/ ConnectedEvent
    \/ RoomsTimerFire
    \/ \E m \in ErrorMessages : ErrorEvent(m)

ReconnectSpec == ReconnectInit /\ [][ReconnectNext]_vars

(***************************************************************************)
(* Keepalive, commands, teardown and the credential exchange.              *)
(***************************************************************************)

\* C21: once the connection is established and React has committed it, the
\* keepalive interval of the providers that have one is running on the
\* connected socket, so that a ping is emitted after every interval the
\* session stays Connected.
C21_KeepaliveRunsWhileConnected ==
    (variant # "auto" /\ ~RenderPending /\ isConnected /\ Connected(socks, socket))
        => pingInterval = socket

\* C22: a ping is emitted only while the session is Connected, never while
\* it is Disconnected or Connecting.
C22_NoPingUnlessConnected ==
    [][lastOp'.op = "ping" => isConnected']_vars

\* C28: a credential exchange that is answered with a non-success status,
\* or with a body that lacks the api_key field, caches no credential and
\* leads to no connection attempt.
C28_FailedExchangeCachesNothing ==
    [][lastOp'.op \in {"auth_reject", "auth_nokey"} =>
         /\ userApiKey' = userApiKey
         /\ nextSocket' = nextSocket]_vars

\* C29: after a credential exchange has failed, the next render issues no
\* further exchange request: only a user action starts another one.
C29_FailedExchangeNotRetried ==
    [][(lastOp.op \in {"auth_reject", "auth_nokey"} /\ lastOp'.op = "render") =>
         BagCardinality(auths') <= BagCardinality(auths)]_vars

\* C30: while a credential obtained by a successful exchange is cached, no
\* exchange request is issued.
C30_CachedCredentialAvoidsExchange ==
    [][(userApiKey = "key" /\ userApiKey' = "key") =>
         BagCardinality(auths') <= BagCardinality(auths)]_vars

\* a command was called on a session whose socket was not connected
RejectedCall == lastOp'.op \in CommandNames /\ ~Connected(socks, rSocket)

\* C23: a command attempted while the session is not connected has no side
\* effect: nothing is emitted, nothing is queued for later delivery, and the
\* connection state and the three collections are unchanged.
C23_RejectedCommandHasNoEffect ==
    [][RejectedCall =>
         /\ outbox' = outbox
         /\ sendBuffer' = sendBuffer
         /\ << socket, socks, isConnected, isConnecting >>' =
              << socket, socks, isConnected, isConnecting >>
         /\ << messages, rooms, onlineUsers >>' = << messages, rooms, onlineUsers >>]_vars

\* a message was refused on a dropped socket while the collections were filled
C23_Witness ==
    /\ rSocket # 0
    /\ socks[rSocket] = "retrying"
    /\ lastCall.cmd = "sendMessage"
    /\ toast = NotConnectedError
    /\ messages # << >>

\* C24: every command rejected because the session is not connected reports
\* a not-connected error to the caller at the time of the call, whatever
\* its arguments.
C24_RejectedCommandReportsError ==
    [][RejectedCall => toast' = NotConnectedError]_vars

\* C24, amended: the rejected command reports the error at the time of the
\* call, except a getMessages, getConversations or getOnlineUsers of the
\* flat provider called with showError false, which is dropped silently.
C24_RejectedCommandReportsErrorUnlessSilenced ==
    [][RejectedCall =>
         LET silenced == /\ variant = "flat"
                         /\ lastCall'.cmd \in {"getMessages", "getConversations",
                                                "getOnlineUsers"}
                         /\ ~lastCall'.showError
         IN  toast' = IF silenced THEN "none" ELSE NotConnectedError]_vars

\* a manual refresh of the flat provider was refused and reported
C24_Witness ==
    /\ variant = "flat"
    /\ ~Connected(socks, rSocket)
    /\ lastCall.cmd = "getOnlineUsers"
    /\ lastCall.showError
    /\ toast = NotConnectedError

\* the outbound event kind of each command
MatchingKind(cmd) ==
    CASE cmd = "sendMessage" -> "send_message"
      [] cmd = "getMessages" -> "get_messages"
      [] cmd = "joinRoom" -> "join_room"
      [] cmd = "leaveRoom" -> "leave_room"
      [] cmd = "getRooms" -> "get_rooms"
      [] cmd = "getConversations" -> "get_conversations"
      [] cmd = "getOnlineUsers" -> "get_online_users"
      [] cmd = "checkUserStatus" -> "check_user_status"

\* C25: a command called while connected emits exactly one outbound event of
\* the matching kind, and get_messages carries the limit and the offset.
C25_ConnectedCommandEmitsMatchingEvent ==
    [][(lastOp'.op \in CommandNames /\ Connected(socks, rSocket)) =>
         /\ Len(outbox') = Len(outbox) + 1
         /\ SubSeq(outbox', 1, Len(outbox)) = outbox
         /\ sendBuffer' = sendBuffer
         /\ LET e == outbox'[Len(outbox')]
            IN  /\ e.name = MatchingKind(lastCall'.cmd)
                /\ lastCall'.cmd = "getMessages" =>
                     /\ {"limit", "offset"} \subseteq DOMAIN e.payload
                     /\ e.payload.limit = lastCall'.limit
                     /\ e.payload.offset = lastCall'.offset]_vars

\* a callback of a timer or interval the session started has run
TimerStep ==
    \/ roomsTimers' < roomsTimers
    \/ lastOp'.op = "reconnect_timer" /\ timers' # timers
    \/ lastOp'.op = "ping" /\ lastOp' # lastOp

\* C26: once disconnect() has torn the session down, no timer the session
\* started fires a reconnect, a keepalive probe or any other emit against
\* the disposed connection.
C26_NoTimerAfterTeardown ==
    [][exempt => ~TimerStep]_vars

\* C27: the handlers of a transport loss and of the reconnection that
\* follows (disconnect, reconnect timer, reconnection attempt, connect,
\* connect_error) leave the message, container and presence collections
\* unchanged.
C27_ReconnectPreservesCollections ==
    [][lastOp'.op \in {"disconnect", "reconnect_timer", "reconnect_attempt", "connect",
                       "connect_error"} =>
         << messages, rooms, onlineUsers >>' = << messages, rooms, onlineUsers >>]_vars

\* the room provider reconnected after a loss and the collections are filled
C27_Witness ==
    /\ lastOp.op = "connect"
    /\ nextTimer > 1
    /\ isConnected
    /\ messages # << >>
    /\ rooms # << >>
    /\ onlineUsers # << >>

(***************************************************************************)
(* Sign-out, follow-up commands, the error event and the gateway.          *)
(***************************************************************************)

\* C31: an explicit disconnect() of a session that holds a socket discards
\* the cached credential, so that the next connection needs a fresh
\* credential exchange.
C31_DisconnectDiscardsCredential ==
    [][(lastOp'.op = "disconnect()" /\ rSocket # 0) => userApiKey' = "none"]_vars

\* C36: whenever the observable state is Connected, the socket the provider
\* holds is non-null and connected, so a command issued then is emitted.
C36_ConnectedStateHasConnectedSocket ==
    isConnected => Connected(socks, socket)

\* C37: at most one credential-exchange request is in flight at any time.
C37_AtMostOneExchangeInFlight ==
    BagCardinality(auths) <= 1

\* C39: an explicit disconnect() performed while a socket exists empties
\* the message, container and presence collections, and a disconnect()
\* with no socket changes nothing.
C39_DisconnectResetsCollections ==
    [][(lastOp'.op = "disconnect()" /\ lastOp' # lastOp) =>
         IF rSocket # 0
         THEN messages' = << >> /\ rooms' = << >> /\ onlineUsers' = << >>
         ELSE << messages, rooms, onlineUsers >>' = << messages, rooms, onlineUsers >>]_vars

(***************************************************************************)
(* The online-users page on the flat provider: its connect effect and its  *)
(* refresh timers, through loss and reconnection.                          *)
(***************************************************************************)

RefreshInit ==
    /\ variant = "flat"
    /\ user = TRUE
    /\ mounted = FALSE
    /\ pageMounted = TRUE
    /\ socket = 0
    /\ isConnected = FALSE
    /\ isConnecting = FALSE
    /\ hasAttemptedAuth = FALSE
    /\ rSocket = 0
    /\ rIsConnected = FALSE
    /\ rIsConnecting = FALSE
    /\ rHasAttemptedAuth = FALSE
    /\ reconnectTimeoutRef = 0
    /\ timers = {}
    /\ nextTimer = 1
    /\ socks = [s \in SocketIds |-> "none"]
    /\ nextSocket = 1
    /\ auths = EmptyBag
    /\ userApiKey = "key"
    /\ lastOp = Op("none", 0)
    /\ exempt = FALSE
    /\ pingInterval = 0
    /\ handlers = [s \in SocketIds |-> 0]
    /\ refresh = NoRefresh
    /\ messages = << >>
    /\ rooms = << >>
    /\ currentRoom = 0
    /\ onlineUsers = << >>
    /\ selectedRoom = 0
    /\ roomMessages = << >>
    /\ prevMessages = << >>
    /\ swapped = << >>
    /\ roomsTimers = 0
    /\ outbox = << >>
    /\ snapshots = "none"
    /\ sendBuffer = << >>
    /\ toast = "none"
    /\ lastCall = NoCall
    /\ lastEvt = Evt("none", 0)

RefreshNext ==
    \/ Render /\ UNCHANGED storeVars
    \/ \E s \in SocketIds : HandshakeOk(s) /\ UNCHANGED storeVars
    \/ \E s \in SocketIds, retry \in BOOLEAN : HandshakeFail(s, retry) /\ UNCHANGED storeVars
    \/ \E s \in SocketIds, reason \in Reasons : Loss(s, reason) /\ UNCHANGED storeVars
    \/ \E s \in SocketIds : ManagerReconnect(s) /\ UNCHANGED storeVars
    \/ RefreshTick /\ UNCHANGED storeVars
    \/ RefreshTimeoutFire /\ UNCHANGED storeVars
    \/ PingTick /\ UNCHANGED storeVars

RefreshSpec == RefreshInit /\ [][RefreshNext]_vars

\* C35: while the online-users page is mounted, the 10-second refresh runs
\* on the provider's socket in every period in which the session is
\* connected, also after a loss and a reconnection.
C35_RefreshRunsWhileConnected ==
    (pageMounted /\ ~RenderPending /\ isConnected /\ Receiving) => refresh.interval = socket

\* C32: on a room_joined event for room r, a get_messages command for
\* exactly room r is emitted on the same connection.
C32_RoomJoinedFetchesHistory ==
    [][(lastEvt'.type = "room_joined" /\ lastEvt' # lastEvt) =>
         /\ Len(outbox') = Len(outbox) + 1
         /\ outbox'[Len(outbox')].name = "get_messages"
         /\ outbox'[Len(outbox')].payload.room_id = lastEvt'.arg]_vars

C38_NoConnectionWithoutUser ==
    ~user => \A s \in SocketIds : socks[s] # "open"

====
